---- MODULE Spec2Model ----
(***************************************************************************)
(* A model of the Document Reader enrichment pipeline:                     *)
(*   - AuthorLinker.splitAuthors / normalizeName  (text algorithms)        *)
(*   - TagGenerator.parseResponse / isValidTag     (text algorithms)        *)
(*   - ArticleProcessor.process                    (the step pipeline)      *)
(*   - DocumentReaderPlugin.processFile & friends  (triggers, the queue)    *)
(* Strings are TLA+ strings, i.e. sequences of characters: Len, SubSeq,     *)
(* \o, Head and Tail act on them character by character.                    *)
(***************************************************************************)
EXTENDS Integers, Sequences, FiniteSets, Bags, TLC

VARIABLES
    \* --- AuthorLinker.splitAuthors ---
    creditNames,    \* the names that were joined into authorString (input)
    authorString,   \* the raw author credit handed to splitAuthors
    authorNames,    \* the list splitAuthors returned
    splitDone,      \* TRUE once splitAuthors has returned
    \* --- AuthorLinker.normalizeName ---
    rawName,        \* the name handed to normalizeName
    canonicalName,  \* the string normalizeName returned
    normDone,       \* TRUE once normalizeName has returned
    \* --- TagGenerator.parseResponse ---
    response,       \* the text-generation response handed to parseResponse
    tagPrefix,      \* settings.tagPrefix
    maxTags,        \* settings.maxTags
    tagResult,      \* the TagGenerationResult parseResponse returned
    parseDone,      \* TRUE once parseResponse has returned
    \* --- the plugin and the vault ---
    settings,       \* DocumentReaderSettings (the switches of the steps)
    header,         \* per document: frontmatter source, url, dr-processed
    cache,          \* per document: the frontmatter the metadata cache holds
    docFolder,      \* per document: the folder it lies in
    processingQueue,\* DocumentReaderPlugin.processingQueue (a set of paths)
    calls,          \* the process() calls in flight (a bag of records)
    pendingFile,    \* the file the debouncer will pass on when it fires
    \* --- AuthorLinker.processOneAuthor ---
    peoplePages,    \* the author pages of the vault, in the vault's order
    peopleFolderExists, \* whether settings.peopleFolder is a folder
    rawAuthorName,  \* the name handed to processOneAuthor
    authorResult,   \* the AuthorLinkResult of the call
    existingPage,   \* what findAuthorPage returned (an index, or NoPage)
    authorPc,       \* where the call stands: find, create, done
    createOutcome,  \* how the vault answered createAuthorPage
    bioOutcome,     \* how the bio generation went
    bioSection,     \* the bio text of the page this call wrote (or Null)
    linkCalls,      \* the processOneAuthor calls in flight at once, by call
    headerAuthor,   \* the author field of the header handed to linkAuthor
    multiResult,    \* what linkAuthor returned
    linkAuthorDone, \* TRUE once linkAuthor has returned
    \* --- ArticleProcessor.isDuplicate ---
    dupUrl,         \* the url handed to isDuplicate
    dupFile,        \* the currentFile handed to isDuplicate
    dupResult,      \* what isDuplicate returned
    dupDone,        \* TRUE once isDuplicate has returned
    \* --- RelatedArticles ---
    corpus,         \* the markdown files of the vault, in the vault's order
    relCurrent,     \* the path of the currentFile handed to findRelated
    relTags,        \* the tags of the new document
    relCategory,    \* the category of the new document (or Null)
    maxRelatedArticles, \* settings.maxRelatedArticles
    relScores,      \* what calculateRelevance returned for each file
    scoresDone,     \* TRUE once calculateRelevance has been applied
    relResult,      \* the list findRelated returned (indices into corpus)
    relDone,        \* TRUE once findRelated has returned
    relatedSections \* per document, the '## Related Articles' sections in its body

nameVars == <<creditNames, authorString, authorNames, splitDone,
              rawName, canonicalName, normDone>>

tagVars == <<response, tagPrefix, maxTags, tagResult, parseDone>>

authorVars == <<peoplePages, peopleFolderExists, rawAuthorName, authorResult,
                existingPage, authorPc, createOutcome, bioOutcome, bioSection>>

dupVars == <<dupUrl, dupFile, dupResult, dupDone>>

relatedVars == <<corpus, relCurrent, relTags, relCategory, maxRelatedArticles,
                 relScores, scoresDone, relResult, relDone, relatedSections>>

linkVars == <<linkCalls, headerAuthor, multiResult, linkAuthorDone>>

libVars == <<authorVars, linkVars, dupVars, relatedVars>>

textVars == <<nameVars, tagVars, libVars>>

pluginVars == <<settings, header, cache, docFolder, processingQueue, calls, pendingFile>>

vars == <<nameVars, tagVars, pluginVars, libVars>>

(***************************************************************************)
(* JavaScript string primitives                                            *)
(***************************************************************************)
Char(s, i) == SubSeq(s, i, i)

WhiteSpace == {" ", "\t", "\n"}

IsWS(c) == c \in WhiteSpace

LowerLetters == "abcdefghijklmnopqrstuvwxyz"

UpperLetters == "ABCDEFGHIJKLMNOPQRSTUVWXYZ"

UpperToLower ==
    [c \in {Char(UpperLetters, i) : i \in 1..26} |->
        Char(LowerLetters, CHOOSE i \in 1..26 : Char(UpperLetters, i) = c)]

LowerToUpper ==
    [c \in {Char(LowerLetters, i) : i \in 1..26} |->
        Char(UpperLetters, CHOOSE i \in 1..26 : Char(LowerLetters, i) = c)]

ToLowerChar(c) == IF c \in DOMAIN UpperToLower THEN UpperToLower[c] ELSE c

ToUpperChar(c) == IF c \in DOMAIN LowerToUpper THEN LowerToUpper[c] ELSE c

\* Character-wise maps, by halving (the recursion depth stays logarithmic).
RECURSIVE toLowerCase(_)
toLowerCase(s) ==
    IF Len(s) = 0 THEN ""
    ELSE IF Len(s) = 1 THEN ToLowerChar(s)
    ELSE LET h == Len(s) \div 2
         IN  toLowerCase(SubSeq(s, 1, h)) \o toLowerCase(SubSeq(s, h + 1, Len(s)))

RECURSIVE toUpperCase(_)
toUpperCase(s) ==
    IF Len(s) = 0 THEN ""
    ELSE IF Len(s) = 1 THEN ToUpperChar(s)
    ELSE LET h == Len(s) \div 2
         IN  toUpperCase(SubSeq(s, 1, h)) \o toUpperCase(SubSeq(s, h + 1, Len(s)))

Min(S) == CHOOSE x \in S : \A y \in S : x <= y

\* s.startsWith(p)
StartsWith(s, p) == Len(p) <= Len(s) /\ SubSeq(s, 1, Len(p)) = p

\* s.endsWith(p)
EndsWith(s, p) == Len(p) <= Len(s) /\ SubSeq(s, Len(s) - Len(p) + 1, Len(s)) = p

\* s.includes(p)
Includes(s, p) ==
    \E i \in 1..(Len(s) - Len(p) + 1) : SubSeq(s, i, i + Len(p) - 1) = p

\* The index of the last character of the maximal run of whitespace that
\* starts at i (i - 1 when s[i] is no whitespace): what a greedy \s* consumes.
RECURSIVE WSRunEnd(_, _)
WSRunEnd(s, i) ==
    IF i <= Len(s) /\ IsWS(Char(s, i)) THEN WSRunEnd(s, i + 1) ELSE i - 1

\* s.trim()
RECURSIVE TrimEnd(_)
TrimEnd(s) ==
    IF s # "" /\ IsWS(Char(s, Len(s))) THEN TrimEnd(SubSeq(s, 1, Len(s) - 1)) ELSE s

TrimStart(s) == SubSeq(s, WSRunEnd(s, 1) + 1, Len(s))

trim(s) == TrimEnd(TrimStart(s))

\* s.split(sep) for a one-character separator: the pieces between separators,
\* empty pieces included.
split(s, sep) ==
    LET at == {i \in 1..Len(s) : Char(s, i) = sep}
        \* the position of the k-th separator; 0 and Len(s) + 1 bracket the text
        pos(k) == IF k = 0 THEN 0
                  ELSE IF k > Cardinality(at) THEN Len(s) + 1
                  ELSE CHOOSE i \in at : Cardinality({j \in at : j < i}) = k - 1
    IN  [k \in 1..(Cardinality(at) + 1) |-> SubSeq(s, pos(k - 1) + 1, pos(k) - 1)]

\* parts.join(sep)
RECURSIVE join(_, _)
join(parts, sep) ==
    IF parts = <<>> THEN ""
    ELSE IF Len(parts) = 1 THEN parts[1]
    ELSE parts[1] \o sep \o join(Tail(parts), sep)

\* parts.map(f)
Map(parts, f(_)) == [i \in 1..Len(parts) |-> f(parts[i])]

(***************************************************************************)
(* AuthorLinker.splitAuthors                                               *)
(***************************************************************************)

\* s.replace(/\s+WORD\s+/g, ', ') (flag i when ci): every maximal stretch
\* "whitespace WORD whitespace", left to right, becomes ", ".
\* The scan goes from one run of whitespace to the next: a run that is not
\* followed by WORD and whitespace is copied whole (no match can start inside it).
RECURSIVE ReplaceSpacedWord(_, _, _, _)
ReplaceSpacedWord(s, word, ci, i) ==
    LET ws == {p \in i..Len(s) : IsWS(Char(s, p))}
    IN  IF ws = {} THEN SubSeq(s, i, Len(s))
        ELSE LET p == Min(ws)
                 j == WSRunEnd(s, p)
                 k == j + Len(word)
                 w == SubSeq(s, j + 1, k)
             IN  IF /\ k + 1 <= Len(s)
                    /\ (IF ci THEN toLowerCase(w) = word ELSE w = word)
                    /\ IsWS(Char(s, k + 1))
                 THEN SubSeq(s, i, p - 1) \o ", "
                        \o ReplaceSpacedWord(s, word, ci, WSRunEnd(s, k + 1) + 1)
                 ELSE SubSeq(s, i, j) \o ReplaceSpacedWord(s, word, ci, j + 1)

\* s.split(/,\s+/): cut at every comma that is followed by whitespace.
RECURSIVE SplitCommaSpace(_, _)
SplitCommaSpace(s, i) ==
    LET cuts == {p \in i..(Len(s) - 1) : Char(s, p) = "," /\ IsWS(Char(s, p + 1))}
    IN  IF cuts = {} THEN <<SubSeq(s, i, Len(s))>>
        ELSE LET p == Min(cuts)
             IN  <<SubSeq(s, i, p - 1)>> \o SplitCommaSpace(s, WSRunEnd(s, p + 1) + 1)

NonEmpty(s) == s # ""

splitAuthors(s) ==
    IF s = "" \/ trim(s) = "" THEN <<>>
    ELSE LET a1 == trim(s)
             a2 == ReplaceSpacedWord(a1, "and", TRUE, 1)
             a3 == ReplaceSpacedWord(a2, "&", FALSE, 1)
             parts == SplitCommaSpace(a3, 1)
         IN  SelectSeq(Map(parts, trim), NonEmpty)

(***************************************************************************)
(* AuthorLinker.normalizeName                                              *)
(***************************************************************************)
orgIndicators ==
    { "association", "guild", "foundation", "institute", "society",
      "organization", "corporation", "inc", "llc", "ltd", "company",
      "group", "committee", "board", "council", "department", "office" }

\* name.replace(/^(by|written by|author:)\s*/i, '')
StripPrefix(s) ==
    LET l == toLowerCase(s)
        cut(n) == SubSeq(s, WSRunEnd(s, n + 1) + 1, Len(s))
    IN  IF StartsWith(l, "by") THEN cut(2)
        ELSE IF StartsWith(l, "written by") THEN cut(10)
        ELSE IF StartsWith(l, "author:") THEN cut(7)
        ELSE s

\* orgIndicators.some(word => lowerParts.includes(word))
IsOrganization(lowerParts) == \E word \in orgIndicators : Includes(lowerParts, word)

\* The "Last, First" branch: the flipped name, or the name as it was.
FlipLastFirst(normalized) ==
    IF ~Includes(normalized, ",") THEN normalized
    ELSE LET parts == Map(split(normalized, ","), trim)
         IN  IF Len(parts) = 2 /\ parts[1] # "" /\ parts[2] # ""
             THEN LET lowerParts == toLowerCase(parts[1] \o " " \o parts[2])
                  IN  IF /\ ~IsOrganization(lowerParts)
                         /\ \/ ~Includes(parts[2], " ")
                            \/ Len(split(parts[2], " ")) <= 2
                      THEN parts[2] \o " " \o parts[1]
                      ELSE normalized
             ELSE normalized

\* One word of the title-casing map.
TitleWord(word) ==
    IF Len(word) = 0 THEN word
    ELSE IF Len(word) <= 3 /\ word = toUpperCase(word) THEN word
    ELSE toUpperCase(Char(word, 1)) \o toLowerCase(SubSeq(word, 2, Len(word)))

TitleCase(s) == join(Map(split(s, " "), TitleWord), " ")

normalizeName(name) == TitleCase(FlipLastFirst(StripPrefix(trim(name))))

(***************************************************************************)
(* TagGenerator.parseResponse / isValidTag                                 *)
(***************************************************************************)
MaxTagLength == 100

MaxCategoryLength == 50

NoCategory == "<null>"      \* category: null

CharsOf(s) == {Char(s, i) : i \in 1..Len(s)}

Digits == "0123456789"

\* /^[a-z0-9\-\/]+$/
TagChars == CharsOf(LowerLetters) \cup CharsOf(Digits) \cup {"-", "/"}

\* /^[A-Za-z\s&-]+$/
CategoryChars ==
    CharsOf(LowerLetters) \cup CharsOf(UpperLetters) \cup WhiteSpace \cup {"&", "-"}

\* isValidTag without the pattern test.
isValidTag_LengthOnly(tag) == Len(tag) > 0 /\ Len(tag) <= MaxTagLength

isValidTag(tag) ==
    /\ Len(tag) > 0
    /\ \A i \in 1..Len(tag) : Char(tag, i) \in TagChars
    /\ Len(tag) <= MaxTagLength

\* The index just past the first match of `label` in s (compared in lower
\* case when ci; only at the start of a line when lineStart), or 0.
LabelEnd(s, label, ci, lineStart) ==
    LET n == Len(label)
        lower == toLowerCase(label)
        at(i) == /\ Char(s, i) \in {Char(label, 1), Char(lower, 1)}
                 /\ lineStart => (i = 1 \/ Char(s, i - 1) = "\n")
                 /\ LET w == SubSeq(s, i, i + n - 1)
                    IN  IF ci THEN toLowerCase(w) = lower ELSE w = label
        hits == {i \in 1..(Len(s) - n + 1) : at(i)}
    IN  IF hits = {} THEN 0
        ELSE (CHOOSE i \in hits : \A j \in hits : i <= j) + n

\* The characters of s from i up to the end of the line.
RestOfLine(s, i) ==
    LET breaks == {p \in i..Len(s) : Char(s, p) = "\n"}
    IN  SubSeq(s, i, IF breaks = {} THEN Len(s) ELSE Min(breaks) - 1)

\* response.match(/^CATEGORY:\s*(.+)$/m), then the validation of the capture.
\* \s* runs over line breaks too; when it runs to the end of the text the
\* capture can hold white space only, which the length test rejects.
ParseCategory(resp) ==
    LET e == LabelEnd(resp, "CATEGORY:", FALSE, TRUE)
    IN  IF e = 0 THEN NoCategory
        ELSE LET category == trim(RestOfLine(resp, WSRunEnd(resp, e) + 1))
             IN  IF /\ Len(category) > 0
                    /\ Len(category) <= MaxCategoryLength
                    /\ \A i \in 1..Len(category) : Char(category, i) \in CategoryChars
                 THEN category
                 ELSE NoCategory

\* TagsSection without the fall-back to the whole response.
TagsSection_NoFallback(resp) ==
    LET e == LabelEnd(resp, "TAGS:", TRUE, FALSE)
    IN  IF e = 0 THEN ""
        ELSE SubSeq(resp, WSRunEnd(resp, e) + 1, Len(resp))

\* response.match(/TAGS:\s*([\s\S]*?)$/i): the text after the first TAGS:
\* label; the whole response when there is no label.
TagsSection(resp) ==
    LET e == LabelEnd(resp, "TAGS:", TRUE, FALSE)
    IN  IF e = 0 THEN resp
        ELSE SubSeq(resp, WSRunEnd(resp, e) + 1, Len(resp))

\* tagsSection.split('\n').map(trim).filter(nonempty)
SectionLines(section) == SelectSeq(Map(split(section, "\n"), trim), NonEmpty)

\* The clean-up chain of one line: bullet, leading #, quotes, trim, lower case.
CleanTag(line) ==
    LET s1 == IF line # "" /\ Char(line, 1) \in {"-", "*"}
              THEN SubSeq(line, WSRunEnd(line, 2) + 1, Len(line))
              ELSE line
        s2 == IF StartsWith(s1, "#") THEN Tail(s1) ELSE s1
        s3 == IF s2 # "" /\ Char(s2, 1) \in {"\"", "'"} THEN Tail(s2) ELSE s2
        s4 == IF s3 # "" /\ Char(s3, Len(s3)) \in {"\"", "'"}
              THEN SubSeq(s3, 1, Len(s3) - 1)
              ELSE s3
    IN  toLowerCase(trim(s4))

\* tag.replace(/\s+/g, '-')
RECURSIVE HyphenateSpaces(_, _)
HyphenateSpaces(s, i) ==
    LET ws == {p \in i..Len(s) : IsWS(Char(s, p))}
    IN  IF ws = {} THEN SubSeq(s, i, Len(s))
        ELSE LET p == Min(ws)
             IN  SubSeq(s, i, p - 1) \o "-" \o HyphenateSpaces(s, WSRunEnd(s, p) + 1)

\* "Skip empty or obviously wrong lines"
SkipsTag(tag) ==
    \/ tag = ""
    \/ Len(tag) > MaxTagLength
    \/ (Includes(tag, " ") /\ ~Includes(tag, "/"))

\* "Add prefix if not present"
WithPrefix(tag, prefix) == IF StartsWith(tag, prefix) THEN tag ELSE prefix \o tag

\* The for loop over the lines of the tags section, from line i on.
RECURSIVE TagLoop(_, _, _, _, _)
TagLoop(lines, i, tags, prefix, limit) ==
    IF i > Len(lines) THEN tags
    ELSE IF StartsWith(toUpperCase(lines[i]), "CATEGORY:")
         THEN TagLoop(lines, i + 1, tags, prefix, limit)
    ELSE LET cleaned == CleanTag(lines[i])
         IN  IF SkipsTag(cleaned) THEN TagLoop(lines, i + 1, tags, prefix, limit)
             ELSE LET tag == WithPrefix(HyphenateSpaces(cleaned, 1), prefix)
                      pushed == IF isValidTag(tag) THEN Append(tags, tag) ELSE tags
                  IN  IF Len(pushed) >= limit THEN pushed
                      ELSE TagLoop(lines, i + 1, pushed, prefix, limit)

parseResponse(resp, prefix, limit) ==
    [ tags |-> TagLoop(SectionLines(TagsSection(resp)), 1, <<>>, prefix, limit),
      category |-> ParseCategory(resp) ]

(***************************************************************************)
(* The vault: documents, their folders and their headers                   *)
(***************************************************************************)
Docs == {"a.md", "b.md"}        \* TFile.name of the documents of the vault

articlesFolder == "Articles"    \* settings.articlesFolder

Categories == {"Tech"}          \* the categories the tag step can return

Folders == {"Inbox", articlesFolder, articlesFolder \o "/Tech"}

NoFile == "<none>"

\* TFile.path; a rename changes it on the same TFile object
PathOf(d) == docFolder[d] \o "/" \o d

Extension(d) == IF EndsWith(d, ".md") THEN "md" ELSE ""

\* the folder filter without the path separator
UnderArticles_NoSlash(path) == StartsWith(path, articlesFolder)

UnderArticles(path) ==
    StartsWith(path, articlesFolder \o "/") \/ path = articlesFolder

\* a url of "" stands for a header without a string url
isDuplicate(url, currentFile) ==
    \E file \in Docs :
        /\ Extension(file) = "md"
        /\ UnderArticles(PathOf(file))
        /\ PathOf(file) # PathOf(currentFile)
        /\ cache[file].url # ""
        /\ cache[file].url = url

\* reads metadataCache.getFileCache(file)?.frontmatter
shouldProcess(d) ==
    /\ cache[d].source = "web-clipper"
    /\ cache[d].processed # TRUE

(***************************************************************************)
(* ArticleProcessor.process: one record per call in flight                 *)
(***************************************************************************)
StepOrder ==
    <<"gate", "read", "images", "author", "tags", "rewrite", "move",
      "patch", "related", "complete", "returned">>

Index(step) == CHOOSE i \in DOMAIN StepOrder : StepOrder[i] = step

After(step) == StepOrder[Index(step) + 1]

\* the steps that sit in a try/catch of their own
GuardedSteps_NoAuthor == {"images", "tags", "move", "related"}

GuardedSteps == {"images", "author", "tags", "move", "related"}

DuplicateMsg == "Duplicate URL found in another file"

ImagesFailedMsg == "Failed to download image(s)"

StepError(step) ==
    CASE step = "images"  -> "Image processing failed"
      [] step = "author"  -> "Author linking failed"
      [] step = "tags"    -> "Tag generation failed"
      [] step = "move"    -> "Failed to move to category folder"
      [] step = "related" -> "Related articles linking failed"

\* the message of the top-level handler carries the message of the error,
\* which here names the step that threw it
FatalMsg(step) == "Processing failed: " \o step

NewCall(d, forced) ==
    [doc |-> d, path |-> PathOf(d), forced |-> forced, pc |-> "gate",
     success |-> FALSE, skippedDuplicate |-> FALSE, errors |-> <<>>,
     imagesDownloaded |-> FALSE, category |-> NoCategory, ran |-> {},
     queryFailed |-> FALSE]

InFlight == BagToSet(calls)

Replace(c, c2) == (calls (-) SetToBag({c})) (+) SetToBag({c2})

Entered(c, step) == [c EXCEPT !.ran = @ \cup {step}]

Advance(c) == [c EXCEPT !.pc = After(c.pc)]

\* an exception of an unguarded step leaving process() without a result
Thrown_NoHandler(c, step) ==
    IF step \in GuardedSteps
    THEN [Entered(c, step) EXCEPT !.errors = Append(@, StepError(step)),
                                  !.pc = After(step)]
    ELSE [Entered(c, step) EXCEPT !.pc = "thrown"]

\* an exception leaves the step: into the step's own catch, else into the
\* catch around the whole of process()
Thrown(c, step) ==
    IF step \in GuardedSteps
    THEN [Entered(c, step) EXCEPT !.errors = Append(@, StepError(step)),
                                  !.pc = After(step)]
    ELSE [Entered(c, step) EXCEPT !.errors = Append(@, FatalMsg(step)),
                                  !.pc = "returned"]

\* where process() goes once the duplicate gate has found a duplicate
GateExit_FallThrough == "read"

GateExit == "returned"

Gate(c) ==
    /\ c.pc = "gate"
    /\ LET url == cache[c.doc].url
           dup == /\ settings.skipDuplicates
                  /\ url # ""
                  /\ isDuplicate(url, c.doc)
       IN calls' = Replace(c,
              IF dup
              THEN [c EXCEPT !.skippedDuplicate = TRUE,
                             !.errors = Append(@, DuplicateMsg),
                             !.pc = GateExit]
              ELSE [c EXCEPT !.pc = "read"])
    /\ UNCHANGED <<settings, header, cache, docFolder, processingQueue, pendingFile>>

IOOutcomes == {"ok", "throw"}

Read(c, o) ==
    /\ c.pc = "read"
    /\ calls' = Replace(c, IF o = "throw" THEN Thrown(c, "read")
                           ELSE Advance(Entered(c, "read")))
    /\ UNCHANGED <<settings, header, cache, docFolder, processingQueue, pendingFile>>

\* processImages: some images stored or none, some downloads failed or none
ImageOutcomes == {"none", "downloaded", "partial", "allFailed", "throw"}

Images(c, o) ==
    /\ c.pc = "images"
    /\ calls' = Replace(c,
          IF ~settings.downloadImages THEN Advance(c)
          ELSE IF o = "throw" THEN Thrown(c, "images")
          ELSE [Advance(Entered(c, "images")) EXCEPT
                   !.imagesDownloaded = (o \in {"downloaded", "partial"}),
                   !.errors = IF o \in {"partial", "allFailed"}
                              THEN Append(@, ImagesFailedMsg) ELSE @])
    /\ UNCHANGED <<settings, header, cache, docFolder, processingQueue, pendingFile>>

Author(c, o) ==
    /\ c.pc = "author"
    /\ calls' = Replace(c,
          IF ~(settings.createAuthorPages \/ settings.useClaudeForAuthor)
          THEN Advance(c)
          ELSE IF o = "throw" THEN Thrown(c, "author")
          ELSE Advance(Entered(c, "author")))
    /\ UNCHANGED <<settings, header, cache, docFolder, processingQueue, pendingFile>>

\* generateTags: a category or none, a failed claudeClient.query (caught
\* inside generateTags, which then returns the empty result), or an exception
\* that leaves generateTags
TagOutcomes == Categories \cup {NoCategory, "queryFails", "throw"}

Tags(c, o) ==
    /\ c.pc = "tags"
    /\ calls' = Replace(c,
          IF ~settings.generateTags THEN Advance(c)
          ELSE IF o = "throw" THEN Thrown(c, "tags")
          ELSE IF o = "queryFails"
          THEN [Advance(Entered(c, "tags")) EXCEPT !.category = NoCategory,
                                                   !.queryFailed = TRUE]
          ELSE [Advance(Entered(c, "tags")) EXCEPT !.category = o])
    /\ UNCHANGED <<settings, header, cache, docFolder, processingQueue, pendingFile>>

Rewrite(c, o) ==
    /\ c.pc = "rewrite"
    /\ calls' = Replace(c,
          IF ~c.imagesDownloaded THEN Advance(c)
          ELSE IF o = "throw" THEN Thrown(c, "rewrite")
          ELSE Advance(Entered(c, "rewrite")))
    /\ UNCHANGED <<settings, header, cache, docFolder, processingQueue, pendingFile>>

\* moveToCategory; vault 'rename' reaches the plugin's handler, which hands
\* the file to the debouncer when autoProcess is on
Move(c, o) ==
    /\ c.pc = "move"
    /\ LET enabled == settings.organizeByCategory /\ c.category # NoCategory
           targetFolder == articlesFolder \o "/" \o c.category
       IN IF ~enabled
          THEN calls' = Replace(c, Advance(c))
               /\ UNCHANGED <<docFolder, pendingFile>>
          ELSE IF o = "throw"
          THEN calls' = Replace(c, Thrown(c, "move"))
               /\ UNCHANGED <<docFolder, pendingFile>>
          ELSE /\ calls' = Replace(c, Advance(Entered(c, "move")))
               /\ docFolder' = [docFolder EXCEPT ![c.doc] = targetFolder]
               /\ pendingFile' =
                     IF docFolder[c.doc] # targetFolder /\ settings.autoProcess
                     THEN c.doc ELSE pendingFile
    /\ UNCHANGED <<settings, header, cache, processingQueue>>

Patch(c, o) ==
    /\ c.pc = "patch"
    /\ IF o = "throw"
       THEN calls' = Replace(c, Thrown(c, "patch")) /\ UNCHANGED header
       ELSE /\ calls' = Replace(c, Advance(Entered(c, "patch")))
            /\ header' = [header EXCEPT ![c.doc].processed = TRUE]
    /\ UNCHANGED <<settings, cache, docFolder, processingQueue, pendingFile>>

\* findRelated finds nothing, or a section is appended to the body
RelatedOutcomes == {"none", "linked", "throw"}

Related(c, o) ==
    /\ c.pc = "related"
    /\ calls' = Replace(c,
          IF ~settings.linkRelatedArticles THEN Advance(c)
          ELSE IF o = "throw" THEN Thrown(c, "related")
          ELSE Advance(Entered(c, "related")))
    /\ UNCHANGED <<settings, header, cache, docFolder, processingQueue, pendingFile>>

\* step 7 on the body: currentContent + relatedSection when findRelated
\* returned files; formatRelatedSection always opens a new section
AppendRelated(c, o) ==
    IF settings.linkRelatedArticles /\ o = "linked"
    THEN [relatedSections EXCEPT ![c.doc] = @ + 1]
    ELSE relatedSections

Complete(c) ==
    /\ c.pc = "complete"
    /\ calls' = Replace(c, [c EXCEPT !.success = TRUE, !.pc = "returned"])
    /\ UNCHANGED <<settings, header, cache, docFolder, processingQueue, pendingFile>>

(***************************************************************************)
(* DocumentReaderPlugin: triggers, processFile and the processing queue    *)
(***************************************************************************)
MaxCalls == 2       \* process() calls in flight at once

\* the header checks of a non-forced processFile
PassesHeaderChecks_SourceOnly(d) == cache[d].source = "web-clipper"

PassesHeaderChecks(d) ==
    /\ cache[d].source = "web-clipper"
    /\ cache[d].processed # TRUE

\* processFile up to its call of process()
Admits(d, forceReprocess) ==
    /\ Extension(d) = "md"
    /\ PathOf(d) \notin processingQueue
    /\ forceReprocess \/ PassesHeaderChecks(d)

StartProcess(d, forceReprocess) ==
    /\ BagCardinality(calls) < MaxCalls
    /\ processingQueue' = processingQueue \cup {PathOf(d)}
    /\ calls' = calls (+) SetToBag({NewCall(d, forceReprocess)})

\* the ribbon icon and the command 'Process clipped article' (not forced),
\* the command 'Reprocess clipped article' (forced), on the active file
Command(d, forceReprocess) ==
    /\ Admits(d, forceReprocess)
    /\ StartProcess(d, forceReprocess)
    /\ UNCHANGED <<settings, header, cache, docFolder, pendingFile>>

\* the metadata cache has indexed the document again and emits 'changed';
\* the plugin's handler hands the file to the one debouncer, which keeps
\* the file of the latest call
MetadataChanged(d) ==
    /\ cache' = [cache EXCEPT ![d] = header[d]]
    /\ pendingFile' = IF settings.autoProcess THEN d ELSE pendingFile
    /\ UNCHANGED <<settings, header, docFolder, processingQueue, calls>>

\* the debounce timer fires: processFileIfNeeded(file)
DebounceFire ==
    /\ pendingFile # NoFile
    /\ pendingFile' = NoFile
    /\ LET d == pendingFile
       IN IF /\ Extension(d) = "md"
             /\ shouldProcess(d)
             /\ PathOf(d) \notin processingQueue
             /\ Admits(d, FALSE)
          THEN StartProcess(d, FALSE)
          ELSE UNCHANGED <<processingQueue, calls>>
    /\ UNCHANGED <<settings, header, cache, docFolder>>

\* process() has returned: the finally of processFile
Finish(c) ==
    /\ c.pc = "returned"
    /\ processingQueue' = processingQueue \ {PathOf(c.doc)}
    /\ calls' = calls (-) SetToBag({c})
    /\ UNCHANGED <<settings, header, cache, docFolder, pendingFile>>

InitPluginIdle ==
    /\ settings = [autoProcess |-> FALSE, skipDuplicates |-> FALSE,
                   downloadImages |-> FALSE, createAuthorPages |-> FALSE,
                   useClaudeForAuthor |-> FALSE, generateTags |-> FALSE,
                   organizeByCategory |-> FALSE, linkRelatedArticles |-> FALSE]
    /\ header = [d \in Docs |-> [source |-> "", url |-> "", processed |-> FALSE]]
    /\ cache = header
    /\ docFolder = [d \in Docs |-> "Inbox"]
    /\ processingQueue = {}
    /\ calls = EmptyBag
    /\ pendingFile = NoFile

(***************************************************************************)
(* AuthorLinker.findAuthorPage / processOneAuthor / createAuthorPage       *)
(***************************************************************************)
peopleFolder == "People"        \* settings.peopleFolder

Null == "<null>"                \* authorName: null, authorLink: null

NoPage == 0                     \* findAuthorPage / createAuthorPage: null

\* TFile.path of an author page
PagePath(page) == page.folder \o "/" \o page.basename \o ".md"

InPeopleFolder(page) == StartsWith(PagePath(page), peopleFolder \o "/")

\* basename or alias equal to the search in lower case
MatchesExactly(page, normalizedSearch) ==
    \/ toLowerCase(page.basename) = normalizedSearch
    \/ \E k \in DOMAIN page.aliases : toLowerCase(page.aliases[k]) = normalizedSearch

\* findAuthorPage with a second pass that accepts containment either way
findAuthorPage_Fuzzy(pages, folderExists, authorName) ==
    LET normalizedSearch == toLowerCase(authorName)
        files == {i \in DOMAIN pages : InPeopleFolder(pages[i])}
        exact == {i \in files : MatchesExactly(pages[i], normalizedSearch)}
        fuzzy == {i \in files :
                     \/ Includes(toLowerCase(pages[i].basename), normalizedSearch)
                     \/ Includes(normalizedSearch, toLowerCase(pages[i].basename))}
    IN  IF ~folderExists THEN NoPage
        ELSE IF exact # {} THEN Min(exact)
        ELSE IF fuzzy # {} THEN Min(fuzzy)
        ELSE NoPage

\* the index of the first page of the People folder that matches, or NoPage
findAuthorPage(pages, folderExists, authorName) ==
    LET normalizedSearch == toLowerCase(authorName)
        files == {i \in DOMAIN pages : InPeopleFolder(pages[i])}
        exact == {i \in files : MatchesExactly(pages[i], normalizedSearch)}
    IN  IF ~folderExists THEN NoPage
        ELSE IF exact # {} THEN Min(exact)
        ELSE NoPage

WikiLink(basename) == "[[" \o basename \o "]]"

NoAuthorResult == [authorName |-> Null, authorLink |-> Null, created |-> FALSE]

\* processOneAuthor up to the end of the search
FindStep ==
    /\ authorPc = "find"
    /\ LET authorName == normalizeName(rawAuthorName)
           found == findAuthorPage(peoplePages, peopleFolderExists, authorName)
       IN  /\ existingPage' = found
           /\ IF found # NoPage
              THEN /\ authorResult' = [authorName |-> authorName,
                                       authorLink |-> WikiLink(peoplePages[found].basename),
                                       created |-> FALSE]
                   /\ authorPc' = "done"
              ELSE IF settings.createAuthorPages
              THEN /\ authorResult' = [NoAuthorResult EXCEPT !.authorName = authorName]
                   /\ authorPc' = "create"
              ELSE /\ authorResult' = [authorName |-> authorName,
                                       authorLink |-> WikiLink(authorName),
                                       created |-> FALSE]
                   /\ authorPc' = "done"
    /\ UNCHANGED <<peoplePages, peopleFolderExists, rawAuthorName,
                   createOutcome, bioOutcome, bioSection>>

\* createAuthorPage: the page is stored, or ensureFolder fails, or the
\* folder is there and a later call (vault.create) fails
CreateOutcomes == {"stored", "folderFails", "createFails"}

\* what happens to the bio: the client is not configured, the web search
\* fails (and the query then answers), the query fails, both fail, or a bio
\* is generated
BioOutcomes == {"notConfigured", "searchFails", "queryFails", "bothFail", "generated"}

GeneratedBio == "generated bio"

PlaceholderBio == "*Author of clipped articles. Bio to be added.*"

\* a failed query leaving generateAuthorBio as an exception
BioThrows_QueryPropagates(b) == b \in {"queryFails", "bothFail"}

\* generateAuthorBio catches the failure of the search and of the query
BioThrows(b) == FALSE

\* generateAuthorBio: the bio, or Null
generateAuthorBio(b) ==
    IF b \in {"queryFails", "bothFail"} THEN Null ELSE GeneratedBio

\* the text under '## Bio' of the page that is written
BioSection(b) ==
    IF b = "notConfigured" \/ generateAuthorBio(b) = Null
    THEN PlaceholderBio
    ELSE generateAuthorBio(b)

\* createAuthorPage: the vault after the call, the page returned (an index
\* into the pages, or NoPage for null) and the bio text written (Null when
\* nothing was written)
createAuthorPage(pages, folderExists, authorName, o, b) ==
    LET newPage == [basename |-> authorName, aliases |-> <<>>, folder |-> peopleFolder]
        existing == {i \in DOMAIN pages : PagePath(pages[i]) = PagePath(newPage)}
    IN  IF o = "folderFails"
        THEN [pages |-> pages, folderExists |-> folderExists,
              page |-> NoPage, bio |-> Null]
        ELSE IF existing # {}
        THEN [pages |-> pages, folderExists |-> TRUE,
              page |-> Min(existing), bio |-> Null]
        ELSE IF (b # "notConfigured" /\ BioThrows(b)) \/ o = "createFails"
        THEN [pages |-> pages, folderExists |-> TRUE,
              page |-> NoPage, bio |-> Null]
        ELSE [pages |-> Append(pages, newPage), folderExists |-> TRUE,
              page |-> Len(pages) + 1, bio |-> BioSection(b)]

\* the rest of processOneAuthor once createAuthorPage has returned
AfterCreate(result, created) ==
    IF created.page # NoPage
    THEN [result EXCEPT !.authorLink = WikiLink(created.pages[created.page].basename),
                        !.created = TRUE]
    ELSE result

\* createAuthorPage and the rest of processOneAuthor
CreateStep(o, b) ==
    /\ authorPc = "create"
    /\ authorPc' = "done"
    /\ LET created == createAuthorPage(peoplePages, peopleFolderExists,
                                       authorResult.authorName, o, b)
       IN  /\ peoplePages' = created.pages
           /\ peopleFolderExists' = created.folderExists
           /\ authorResult' = AfterCreate(authorResult, created)
           /\ bioSection' = created.bio
    /\ createOutcome' = o
    /\ bioOutcome' = b
    /\ UNCHANGED <<existingPage, rawAuthorName>>

InitAuthorIdle ==
    /\ peoplePages = <<>> /\ peopleFolderExists = FALSE
    /\ rawAuthorName = "" /\ authorResult = NoAuthorResult
    /\ existingPage = NoPage /\ authorPc = "idle"
    /\ createOutcome = "" /\ bioOutcome = "" /\ bioSection = Null

(***************************************************************************)
(* processOneAuthor calls of several documents, interleaved at their       *)
(* awaits: after findAuthorPage, inside ensureFolder, and between the      *)
(* existence check of createAuthorPage and vault.create                    *)
(***************************************************************************)
NewLinkCall(raw) ==
    [raw |-> raw, pc |-> "find", result |-> NoAuthorResult]

PathTaken(pages, authorName) ==
    {i \in DOMAIN pages :
        PagePath(pages[i]) = peopleFolder \o "/" \o authorName \o ".md"}

\* normalizeName and findAuthorPage, up to the await of createAuthorPage
LinkFind(i) ==
    /\ linkCalls[i].pc = "find"
    /\ LET authorName == normalizeName(linkCalls[i].raw)
           found == findAuthorPage(peoplePages, peopleFolderExists, authorName)
       IN  linkCalls' = [linkCalls EXCEPT ![i] =
              IF found # NoPage
              THEN [@ EXCEPT !.pc = "done",
                             !.result = [authorName |-> authorName,
                                         authorLink |-> WikiLink(peoplePages[found].basename),
                                         created |-> FALSE]]
              ELSE IF settings.createAuthorPages
              THEN [@ EXCEPT !.pc = "ensure",
                             !.result = [NoAuthorResult EXCEPT !.authorName = authorName]]
              ELSE [@ EXCEPT !.pc = "done",
                             !.result = [authorName |-> authorName,
                                         authorLink |-> WikiLink(authorName),
                                         created |-> FALSE]]]
    /\ UNCHANGED <<peoplePages, peopleFolderExists>>

\* ensureFolder: the look-up of the folder
LinkEnsure(i) ==
    /\ linkCalls[i].pc = "ensure"
    /\ linkCalls' = [linkCalls EXCEPT ![i].pc =
                        IF peopleFolderExists THEN "check" ELSE "mkdir"]
    /\ UNCHANGED <<peoplePages, peopleFolderExists>>

\* ensureFolder: vault.createFolder, which rejects when the folder is there
LinkMkdir(i, o) ==
    /\ linkCalls[i].pc = "mkdir"
    /\ IF peopleFolderExists \/ o = "folderFails"
       THEN /\ linkCalls' = [linkCalls EXCEPT ![i].pc = "done"]
            /\ UNCHANGED peopleFolderExists
       ELSE /\ linkCalls' = [linkCalls EXCEPT ![i].pc = "check"]
            /\ peopleFolderExists' = TRUE
    /\ UNCHANGED peoplePages

\* createAuthorPage: the existence check; an existing file is returned and
\* processOneAuthor sets created = true for any file returned
LinkCheck(i) ==
    /\ linkCalls[i].pc = "check"
    /\ LET existing == PathTaken(peoplePages, linkCalls[i].result.authorName)
       IN  linkCalls' = [linkCalls EXCEPT ![i] =
              IF existing # {}
              THEN [@ EXCEPT !.pc = "done",
                             !.result.authorLink =
                                 WikiLink(peoplePages[Min(existing)].basename),
                             !.result.created = TRUE]
              ELSE [@ EXCEPT !.pc = "store"]]
    /\ UNCHANGED <<peoplePages, peopleFolderExists>>

\* createAuthorPage: vault.create, which rejects when the path is taken
LinkStore(i, o) ==
    /\ linkCalls[i].pc = "store"
    /\ LET authorName == linkCalls[i].result.authorName
       IN  IF PathTaken(peoplePages, authorName) # {} \/ o = "createFails"
           THEN /\ linkCalls' = [linkCalls EXCEPT ![i].pc = "done"]
                /\ UNCHANGED peoplePages
           ELSE /\ peoplePages' =
                     Append(peoplePages,
                            [basename |-> authorName, aliases |-> <<>>,
                             folder |-> peopleFolder])
                /\ linkCalls' = [linkCalls EXCEPT
                                    ![i].pc = "done",
                                    ![i].result.authorLink = WikiLink(authorName),
                                    ![i].result.created = TRUE]
    /\ UNCHANGED peopleFolderExists

\* linkAuthor with createAuthorPages off: the header's author (skipped when
\* it is a wiki link already), splitAuthors, then processOneAuthor on each
\* name in turn
EmptyMultiResult ==
    [allAuthorNames |-> <<>>, allAuthorLinks |-> <<>>, authorsCreated |-> 0]

RECURSIVE LinkEach(_, _, _, _)
LinkEach(names, pages, folderExists, acc) ==
    IF names = <<>> THEN acc
    ELSE LET authorName == normalizeName(Head(names))
             found == findAuthorPage(pages, folderExists, authorName)
             authorLink == IF found # NoPage THEN WikiLink(pages[found].basename)
                           ELSE WikiLink(authorName)
         IN  LinkEach(Tail(names), pages, folderExists,
                      [acc EXCEPT
                         !.allAuthorNames =
                             IF authorName # "" THEN Append(@, authorName) ELSE @,
                         !.allAuthorLinks = Append(@, authorLink)])

linkAuthor(author, pages, folderExists) ==
    IF trim(author) = "" \/ StartsWith(trim(author), "[[")
    THEN EmptyMultiResult
    ELSE LinkEach(splitAuthors(trim(author)), pages, folderExists, EmptyMultiResult)

InitLinkIdle ==
    /\ linkCalls = <<>>
    /\ headerAuthor = "" /\ multiResult = EmptyMultiResult /\ linkAuthorDone = FALSE

(***************************************************************************)
(* RelatedArticles: scoring and ranking                                    *)
(* A file of the vault is a record [path, hasFrontmatter, tags]; tags is   *)
(* the string items of frontmatter.tags, in order.                         *)
(***************************************************************************)
ListIncludes(list, x) == \E j \in 1..Len(list) : list[j] = x

\* for (const tag of tags) if (fileTags.includes(tag)) score += 2
MatchingTags(tags, fileTags) ==
    Cardinality({ i \in 1..Len(tags) : ListIncludes(fileTags, tags[i]) })

CategoryBonus(file, category) ==
    IF /\ category # Null
       /\ category # ""
       /\ StartsWith(file.path, articlesFolder \o "/" \o category \o "/")
    THEN 3 ELSE 0

calculateRelevance(file, tags, category) ==
    IF ~file.hasFrontmatter
    THEN 0
    ELSE 2 * MatchingTags(tags, file.tags) + CategoryBonus(file, category)

\* the filter without the exclusion of the current file
IsCandidate_KeepCurrent(file, currentPath) == UnderArticles(file.path)

IsCandidate(file, currentPath) ==
    /\ file.path # currentPath
    /\ UnderArticles(file.path)

\* the indices of the files that are scored and kept, in the vault's order
ScoredFiles(files, currentPath, tags, category) ==
    SelectSeq([i \in 1..Len(files) |-> i],
              LAMBDA i : /\ IsCandidate(files[i], currentPath)
                         /\ calculateRelevance(files[i], tags, category) > 0)

\* the list left in the order it was built
SortByScore_Unsorted(files, scored, tags, category) == scored

\* scoredFiles.sort((a, b) => b.score - a.score): Array.prototype.sort is
\* stable, so an entry's rank is the number of entries that score higher or
\* score the same and come earlier
SortByScore(files, scored, tags, category) ==
    LET score(k) == calculateRelevance(files[scored[k]], tags, category)
        Rank(k) == 1 + Cardinality({ j \in 1..Len(scored) :
                          \/ score(j) > score(k)
                          \/ score(j) = score(k) /\ j < k })
    IN  [r \in 1..Len(scored) |->
            scored[CHOOSE k \in 1..Len(scored) : Rank(k) = r]]

\* slice(0, maxResults) for maxResults >= 0
SliceFromStart(list, maxResults) ==
    SubSeq(list, 1, IF maxResults < Len(list) THEN maxResults ELSE Len(list))

findRelated(files, currentPath, tags, category, maxResults) ==
    SliceFromStart(
        SortByScore(files, ScoredFiles(files, currentPath, tags, category),
                    tags, category),
        maxResults)

InitDupIdle ==
    dupUrl = "" /\ dupFile = NoFile /\ dupResult = FALSE /\ dupDone = FALSE

InitRelatedIdle ==
    /\ corpus = <<>> /\ relCurrent = "" /\ relTags = <<>> /\ relCategory = Null
    /\ maxRelatedArticles = 0 /\ relScores = <<>> /\ scoresDone = FALSE
    /\ relResult = <<>> /\ relDone = FALSE
    /\ relatedSections = [d \in Docs |-> 0]

InitLibIdle == InitAuthorIdle /\ InitLinkIdle /\ InitDupIdle /\ InitRelatedIdle

(***************************************************************************)
(* Inputs of the name algorithms                                           *)
(***************************************************************************)
MaxAuthors == 3

PersonNames == {"John Smith", "Jane Doe", "Bob Johnson", "Sandy"}

AuthorSeparators == {", ", " and ", " AND ", " & ", ", and "}

\* n1 s1 n2 s2 ... nk
RECURSIVE JoinCredit(_, _)
JoinCredit(ns, ss) ==
    IF Len(ns) = 1 THEN ns[1]
    ELSE ns[1] \o ss[1] \o JoinCredit(Tail(ns), Tail(ss))

InitNormIdle == rawName = "" /\ canonicalName = "" /\ normDone = FALSE

NoTagResult == [tags |-> <<>>, category |-> NoCategory]

InitTagsIdle ==
    /\ response = "" /\ tagPrefix = "" /\ maxTags = 0
    /\ tagResult = NoTagResult /\ parseDone = FALSE

InitSplitIdle ==
    /\ creditNames = <<>> /\ authorString = ""
    /\ authorNames = <<>> /\ splitDone = FALSE

InitSplit ==
    /\ \E k \in 1..MaxAuthors :
         \E ns \in [1..k -> PersonNames], ss \in [1..(k - 1) -> AuthorSeparators] :
            /\ creditNames = ns
            /\ authorString = JoinCredit(ns, ss)
    /\ authorNames = <<>>
    /\ splitDone = FALSE
    /\ InitNormIdle
    /\ InitTagsIdle
    /\ InitPluginIdle
    /\ InitLibIdle

SplitAuthors ==
    /\ ~splitDone
    /\ creditNames # <<>>
    /\ authorNames' = splitAuthors(authorString)
    /\ splitDone' = TRUE
    /\ UNCHANGED <<creditNames, authorString, rawName, canonicalName, normDone>>
    /\ UNCHANGED tagVars
    /\ UNCHANGED <<pluginVars, libVars>>

NextSplit == SplitAuthors

SpecSplit == InitSplit /\ [][NextSplit]_vars

\* --- normalizeName: an optional prefix, then 1..MaxWords words ---
MaxWords == 3

NamePrefixes == {"", "by ", "Written By ", "author:"}

NameWords == {"J.K.", "rowling", "Smith", "John", "Foundation", "Vincent", "Byron"}

WordSeparators == {" ", ", ", ","}

InitNorm ==
    /\ \E k \in 1..MaxWords :
         \E p \in NamePrefixes, ws \in [1..k -> NameWords],
            ss \in [1..(k - 1) -> WordSeparators] :
               rawName = p \o JoinCredit(ws, ss)
    /\ canonicalName = ""
    /\ normDone = FALSE
    /\ InitSplitIdle
    /\ InitTagsIdle
    /\ InitPluginIdle
    /\ InitLibIdle

NormalizeName ==
    /\ ~normDone
    /\ rawName # ""
    /\ canonicalName' = normalizeName(rawName)
    /\ normDone' = TRUE
    /\ UNCHANGED <<creditNames, authorString, authorNames, splitDone, rawName>>
    /\ UNCHANGED tagVars
    /\ UNCHANGED <<pluginVars, libVars>>

NextNorm == NormalizeName

SpecNorm == InitNorm /\ [][NextNorm]_vars

\* --- parseResponse: 1..MaxLines lines, a tag prefix, a tag limit ---
MaxLines == 3

\* A tag of 95 characters: within the limit alone, beyond it once prefixed.
LongTag == "aaaaaaaaaaaaaaaaaaaaaaaaaaaaaaaaaaaaaaaaaaaaaaaaaaaaaaaaaaaaaaaaaaaaaaaaaaaaaaaaaaaaaaaaaaaaaaa"

LongTagLine == "- " \o LongTag

ResponseLines ==
    { "CATEGORY: Technology", "TAGS:", "- ai", "* Topic/Deep Learning",
      "#machine learning", "- research/ai", "- c++", LongTagLine }

TagPrefixes == {"research/", "", "R/"}

TagLimits == {1, 2, 5}

InitTags ==
    /\ \E k \in 1..MaxLines :
         \E ls \in [1..k -> ResponseLines] : response = join(ls, "\n")
    /\ tagPrefix \in TagPrefixes
    /\ maxTags \in TagLimits
    /\ tagResult = NoTagResult
    /\ parseDone = FALSE
    /\ InitSplitIdle
    /\ InitNormIdle
    /\ InitPluginIdle
    /\ InitLibIdle

ParseResponse ==
    /\ ~parseDone
    /\ response # ""
    /\ tagResult' = parseResponse(response, tagPrefix, maxTags)
    /\ parseDone' = TRUE
    /\ UNCHANGED <<response, tagPrefix, maxTags>>
    /\ UNCHANGED nameVars
    /\ UNCHANGED <<pluginVars, libVars>>

NextTags == ParseResponse

SpecTags == InitTags /\ [][NextTags]_vars

\* --- parseResponse at the edges: white space inside the category, a
\* --- category over more than one word, a tag limit of 0 ---
EdgeLines ==
    { "CATEGORY: Sci\tFi", "CATEGORY: Arts & Culture", "TAGS:", "- ai", "- ml" }

EdgeLimits == {0, 1, 2}

InitTagsEdge ==
    /\ \E k \in 1..MaxLines :
         \E ls \in [1..k -> EdgeLines] : response = join(ls, "\n")
    /\ tagPrefix = "research/"
    /\ maxTags \in EdgeLimits
    /\ tagResult = NoTagResult
    /\ parseDone = FALSE
    /\ InitSplitIdle
    /\ InitNormIdle
    /\ InitPluginIdle
    /\ InitLibIdle

SpecTagsEdge == InitTagsEdge /\ [][NextTags]_vars

(***************************************************************************)
(* The pipeline on its own: commands on the active file a.md, one call at  *)
(* a time, with b.md as the rest of the corpus; every switch of the steps, *)
(* every outcome of every step                                             *)
(***************************************************************************)
SettingsChoices ==
    {s \in [autoProcess : {FALSE}, skipDuplicates : BOOLEAN,
            downloadImages : BOOLEAN, createAuthorPages : BOOLEAN,
            useClaudeForAuthor : BOOLEAN, generateTags : BOOLEAN,
            organizeByCategory : BOOLEAN, linkRelatedArticles : BOOLEAN] :
        ~(s.createAuthorPages /\ s.useClaudeForAuthor)}

ActiveFile == "a.md"

Urls == {"https://x/1", "https://x/2"}

InitTextIdle == InitSplitIdle /\ InitNormIdle /\ InitTagsIdle /\ InitLibIdle

Init ==
    /\ settings \in SettingsChoices
    /\ \E ub \in Urls :
          header = [d \in Docs |->
                      [source |-> "web-clipper",
                       url |-> IF d = ActiveFile THEN "https://x/1" ELSE ub,
                       processed |-> FALSE]]
    /\ cache = header
    /\ docFolder = [d \in Docs |-> articlesFolder]
    /\ processingQueue = {}
    /\ calls = EmptyBag
    /\ pendingFile = NoFile
    /\ InitTextIdle

RunCommand ==
    /\ calls = EmptyBag
    /\ \E d \in Docs, forceReprocess \in BOOLEAN : Command(d, forceReprocess)
    /\ UNCHANGED textVars

CacheUpdate == (\E d \in Docs : MetadataChanged(d)) /\ UNCHANGED textVars

GateStep == (\E c \in InFlight : Gate(c)) /\ UNCHANGED textVars

ReadStep ==
    (\E c \in InFlight, o \in IOOutcomes : Read(c, o)) /\ UNCHANGED textVars

ImageStep ==
    (\E c \in InFlight, o \in ImageOutcomes : Images(c, o)) /\ UNCHANGED textVars

AuthorStep ==
    (\E c \in InFlight, o \in IOOutcomes : Author(c, o)) /\ UNCHANGED textVars

TagStep ==
    (\E c \in InFlight, o \in TagOutcomes : Tags(c, o)) /\ UNCHANGED textVars

RewriteStep ==
    (\E c \in InFlight, o \in IOOutcomes : Rewrite(c, o)) /\ UNCHANGED textVars

MoveStep ==
    (\E c \in InFlight, o \in IOOutcomes : Move(c, o)) /\ UNCHANGED textVars

PatchStep ==
    (\E c \in InFlight, o \in IOOutcomes : Patch(c, o)) /\ UNCHANGED textVars

RelatedStep ==
    (\E c \in InFlight, o \in RelatedOutcomes : Related(c, o))
    /\ UNCHANGED textVars

CompleteStep == (\E c \in InFlight : Complete(c)) /\ UNCHANGED textVars

FinishStep == (\E c \in InFlight : Finish(c)) /\ UNCHANGED textVars

Next ==
    \/ RunCommand
    \/ CacheUpdate
    \/ GateStep
    \/ ReadStep
    \/ ImageStep
    \/ AuthorStep
    \/ TagStep
    \/ RewriteStep
    \/ MoveStep
    \/ PatchStep
    \/ RelatedStep
    \/ CompleteStep
    \/ FinishStep

Spec == Init /\ [][Next]_vars

(***************************************************************************)
(* The plugin: events, the debouncer and commands around concurrent calls, *)
(* every step enabled; the document store can fail a read, a move or the   *)
(* header patch                                                            *)
(***************************************************************************)
InitPlugin ==
    /\ settings = [autoProcess |-> TRUE, skipDuplicates |-> TRUE,
                   downloadImages |-> TRUE, createAuthorPages |-> TRUE,
                   useClaudeForAuthor |-> TRUE, generateTags |-> TRUE,
                   organizeByCategory |-> TRUE, linkRelatedArticles |-> TRUE]
    /\ \E ub \in Urls :
          header = [d \in Docs |->
                      [source |-> "web-clipper",
                       url |-> IF d = "a.md" THEN "https://x/1" ELSE ub,
                       processed |-> FALSE]]
    /\ cache = header
    /\ docFolder = [d \in Docs |-> articlesFolder]
    /\ processingQueue = {}
    /\ calls = EmptyBag
    /\ pendingFile = NoFile
    /\ InitTextIdle

UserCommand ==
    (\E d \in Docs, forceReprocess \in BOOLEAN : Command(d, forceReprocess))
    /\ UNCHANGED textVars

DebounceTimer == DebounceFire /\ UNCHANGED textVars

ReadStepP ==
    (\E c \in InFlight, o \in IOOutcomes : Read(c, o)) /\ UNCHANGED textVars

ImageStepP == (\E c \in InFlight : Images(c, "none")) /\ UNCHANGED textVars

AuthorStepP == (\E c \in InFlight : Author(c, "ok")) /\ UNCHANGED textVars

TagStepP ==
    (\E c \in InFlight, o \in Categories \cup {NoCategory} : Tags(c, o))
    /\ UNCHANGED textVars

RewriteStepP == (\E c \in InFlight : Rewrite(c, "ok")) /\ UNCHANGED textVars

MoveStepP ==
    (\E c \in InFlight, o \in IOOutcomes : Move(c, o)) /\ UNCHANGED textVars

PatchStepP ==
    (\E c \in InFlight, o \in IOOutcomes : Patch(c, o)) /\ UNCHANGED textVars

RelatedStepP == (\E c \in InFlight : Related(c, "none")) /\ UNCHANGED textVars

NextPlugin ==
    \/ UserCommand
    \/ CacheUpdate
    \/ DebounceTimer
    \/ GateStep
    \/ ReadStepP
    \/ ImageStepP
    \/ AuthorStepP
    \/ TagStepP
    \/ RewriteStepP
    \/ MoveStepP
    \/ PatchStepP
    \/ RelatedStepP
    \/ CompleteStep
    \/ FinishStep

SpecPlugin == InitPlugin /\ [][NextPlugin]_vars

(***************************************************************************)
(* One process() call at a time with every feature on, each step of the    *)
(* call in flight eventually taken (every awaited call settles)            *)
(***************************************************************************)
InitRun ==
    /\ settings = [autoProcess |-> FALSE, skipDuplicates |-> TRUE,
                   downloadImages |-> TRUE, createAuthorPages |-> TRUE,
                   useClaudeForAuthor |-> TRUE, generateTags |-> TRUE,
                   organizeByCategory |-> TRUE, linkRelatedArticles |-> TRUE]
    /\ \E ub \in Urls :
          header = [d \in Docs |->
                      [source |-> "web-clipper",
                       url |-> IF d = ActiveFile THEN "https://x/1" ELSE ub,
                       processed |-> FALSE]]
    /\ cache = header
    /\ docFolder = [d \in Docs |-> articlesFolder]
    /\ processingQueue = {}
    /\ calls = EmptyBag
    /\ pendingFile = NoFile
    /\ InitTextIdle

StepsOfProcess ==
    \/ GateStep
    \/ ReadStep
    \/ ImageStep
    \/ AuthorStep
    \/ TagStep
    \/ RewriteStep
    \/ MoveStep
    \/ PatchStep
    \/ RelatedStep
    \/ CompleteStep

NextRun == RunCommand \/ CacheUpdate \/ StepsOfProcess \/ FinishStep

SpecRun == InitRun /\ [][NextRun]_vars /\ WF_vars(StepsOfProcess)

(***************************************************************************)
(* Runs and reruns of process() with the related-articles step on, the     *)
(* body of each document followed                                          *)
(***************************************************************************)
MaxSections == 2

InitBody ==
    /\ settings = [autoProcess |-> FALSE, skipDuplicates |-> FALSE,
                   downloadImages |-> FALSE, createAuthorPages |-> FALSE,
                   useClaudeForAuthor |-> FALSE, generateTags |-> TRUE,
                   organizeByCategory |-> FALSE, linkRelatedArticles |-> TRUE]
    /\ header = [d \in Docs |->
                   [source |-> "web-clipper",
                    url |-> IF d = "a.md" THEN "https://x/1" ELSE "https://x/2",
                    processed |-> FALSE]]
    /\ cache = header
    /\ docFolder = [d \in Docs |-> articlesFolder]
    /\ processingQueue = {}
    /\ calls = EmptyBag
    /\ pendingFile = NoFile
    /\ InitTextIdle

RelatedStepBody ==
    /\ \E c \in InFlight, o \in RelatedOutcomes :
          /\ Related(c, o)
          /\ relatedSections' = AppendRelated(c, o)
          /\ relatedSections'[c.doc] <= MaxSections
    /\ UNCHANGED <<corpus, relCurrent, relTags, relCategory, maxRelatedArticles,
                   relScores, scoresDone, relResult, relDone>>
    /\ UNCHANGED <<nameVars, tagVars, authorVars, linkVars, dupVars>>

NextBody ==
    \/ RunCommand
    \/ CacheUpdate
    \/ GateStep
    \/ ReadStep
    \/ ImageStep
    \/ AuthorStep
    \/ TagStep
    \/ RewriteStep
    \/ MoveStep
    \/ PatchStep
    \/ RelatedStepBody
    \/ CompleteStep
    \/ FinishStep

SpecBody == InitBody /\ [][NextBody]_vars

(***************************************************************************)
(* Automatic processing alone: events, the debouncer and process(), with   *)
(* the timer and every step of a call in flight eventually taken           *)
(***************************************************************************)
InitAuto ==
    /\ settings = [autoProcess |-> TRUE, skipDuplicates |-> FALSE,
                   downloadImages |-> FALSE, createAuthorPages |-> FALSE,
                   useClaudeForAuthor |-> FALSE, generateTags |-> FALSE,
                   organizeByCategory |-> FALSE, linkRelatedArticles |-> FALSE]
    /\ header = [d \in Docs |->
                   [source |-> "web-clipper",
                    url |-> IF d = "a.md" THEN "https://x/1" ELSE "https://x/2",
                    processed |-> FALSE]]
    /\ cache = header
    /\ docFolder = [d \in Docs |-> articlesFolder]
    /\ processingQueue = {}
    /\ calls = EmptyBag
    /\ pendingFile = NoFile
    /\ InitTextIdle

ProcessSteps ==
    \/ GateStep
    \/ ReadStepP
    \/ ImageStepP
    \/ AuthorStepP
    \/ TagStepP
    \/ RewriteStepP
    \/ MoveStepP
    \/ PatchStepP
    \/ RelatedStepP
    \/ CompleteStep
    \/ FinishStep

NextAuto ==
    \/ CacheUpdate
    \/ DebounceTimer
    \/ ProcessSteps

SpecAuto ==
    /\ InitAuto
    /\ [][NextAuto]_vars
    /\ WF_vars(DebounceTimer)
    /\ WF_vars(ProcessSteps)

(***************************************************************************)
(* Automatic processing with the move into the category folder on          *)
(***************************************************************************)
InitMove ==
    /\ settings = [autoProcess |-> TRUE, skipDuplicates |-> FALSE,
                   downloadImages |-> FALSE, createAuthorPages |-> FALSE,
                   useClaudeForAuthor |-> FALSE, generateTags |-> TRUE,
                   organizeByCategory |-> TRUE, linkRelatedArticles |-> FALSE]
    /\ header = [d \in Docs |->
                   [source |-> "web-clipper",
                    url |-> IF d = "a.md" THEN "https://x/1" ELSE "https://x/2",
                    processed |-> FALSE]]
    /\ cache = header
    /\ docFolder = [d \in Docs |-> articlesFolder]
    /\ processingQueue = {}
    /\ calls = EmptyBag
    /\ pendingFile = NoFile
    /\ InitTextIdle

SpecMove == InitMove /\ [][NextAuto]_vars

(***************************************************************************)
(* processOneAuthor on a small People folder                               *)
(***************************************************************************)
MaxPages == 2

PagePool ==
    { [basename |-> "Johnny Depp", aliases |-> <<>>, folder |-> "People"],
      [basename |-> "john smith", aliases |-> <<"JOHN">>, folder |-> "People"],
      [basename |-> "John", aliases |-> <<>>, folder |-> "Notes"],
      [basename |-> "J. Smith", aliases |-> <<"Johnny", "John Smith">>,
       folder |-> "People/Staff"],
      [basename |-> "Jo", aliases |-> <<>>, folder |-> "People"] }

RawAuthorNames == {"john", "smith, john", "Johnny Depp", "jane doe"}

InitAuthor ==
    /\ \E k \in 0..MaxPages :
         \E ps \in [1..k -> PagePool] :
            /\ \A i, j \in 1..k : i # j => ps[i] # ps[j]
            /\ peoplePages = ps
    /\ peopleFolderExists \in BOOLEAN
    /\ (\E i \in DOMAIN peoplePages : InPeopleFolder(peoplePages[i]))
          => peopleFolderExists
    /\ rawAuthorName \in RawAuthorNames
    /\ authorResult = NoAuthorResult
    /\ existingPage = NoPage
    /\ authorPc = "find"
    /\ createOutcome = "" /\ bioOutcome = "" /\ bioSection = Null
    /\ \E b \in BOOLEAN :
          settings = [autoProcess |-> FALSE, skipDuplicates |-> FALSE,
                      downloadImages |-> FALSE, createAuthorPages |-> b,
                      useClaudeForAuthor |-> FALSE, generateTags |-> FALSE,
                      organizeByCategory |-> FALSE, linkRelatedArticles |-> FALSE]
    /\ header = [d \in Docs |-> [source |-> "", url |-> "", processed |-> FALSE]]
    /\ cache = header
    /\ docFolder = [d \in Docs |-> "Inbox"]
    /\ processingQueue = {}
    /\ calls = EmptyBag
    /\ pendingFile = NoFile
    /\ InitSplitIdle /\ InitNormIdle /\ InitTagsIdle
    /\ InitLinkIdle /\ InitDupIdle /\ InitRelatedIdle

FindAuthor ==
    FindStep /\ UNCHANGED <<nameVars, tagVars, pluginVars, linkVars, dupVars, relatedVars>>

CreateAuthor ==
    (\E o \in CreateOutcomes, b \in BioOutcomes : CreateStep(o, b))
    /\ UNCHANGED <<nameVars, tagVars, pluginVars, linkVars, dupVars, relatedVars>>

NextAuthor == FindAuthor \/ CreateAuthor

SpecAuthor == InitAuthor /\ [][NextAuthor]_vars

(***************************************************************************)
(* Documents crediting the same author, enriched at the same time          *)
(***************************************************************************)
MaxLinkCalls == 2

LinkCallIds == 1..MaxLinkCalls

CreditedNames == {"jane doe", "JANE DOE", "sam lee"}

InitLink ==
    /\ linkCalls \in [LinkCallIds -> {NewLinkCall(raw) : raw \in CreditedNames}]
    /\ headerAuthor = "" /\ multiResult = EmptyMultiResult /\ linkAuthorDone = FALSE
    /\ peoplePages \in
          { <<>>, <<[basename |-> "Jo", aliases |-> <<>>, folder |-> "People"]>> }
    /\ peopleFolderExists = (peoplePages # <<>>)
    /\ rawAuthorName = "" /\ authorResult = NoAuthorResult
    /\ existingPage = NoPage /\ authorPc = "idle"
    /\ createOutcome = "" /\ bioOutcome = "" /\ bioSection = Null
    /\ settings = [autoProcess |-> FALSE, skipDuplicates |-> FALSE,
                   downloadImages |-> FALSE, createAuthorPages |-> TRUE,
                   useClaudeForAuthor |-> FALSE, generateTags |-> FALSE,
                   organizeByCategory |-> FALSE, linkRelatedArticles |-> FALSE]
    /\ header = [d \in Docs |-> [source |-> "", url |-> "", processed |-> FALSE]]
    /\ cache = header
    /\ docFolder = [d \in Docs |-> "Inbox"]
    /\ processingQueue = {}
    /\ calls = EmptyBag
    /\ pendingFile = NoFile
    /\ InitSplitIdle /\ InitNormIdle /\ InitTagsIdle
    /\ InitDupIdle /\ InitRelatedIdle

LinkFrame ==
    UNCHANGED <<headerAuthor, multiResult, linkAuthorDone, rawAuthorName, authorResult, existingPage, authorPc,
                createOutcome, bioOutcome, bioSection,
                nameVars, tagVars, pluginVars, dupVars, relatedVars>>

FindPage == (\E i \in LinkCallIds : LinkFind(i)) /\ LinkFrame

EnsureFolder == (\E i \in LinkCallIds : LinkEnsure(i)) /\ LinkFrame

CreateFolder ==
    (\E i \in LinkCallIds, o \in {"ok", "folderFails"} : LinkMkdir(i, o))
    /\ LinkFrame

CheckExisting == (\E i \in LinkCallIds : LinkCheck(i)) /\ LinkFrame

StorePage ==
    (\E i \in LinkCallIds, o \in {"stored", "createFails"} : LinkStore(i, o))
    /\ LinkFrame

NextLink == FindPage \/ EnsureFolder \/ CreateFolder \/ CheckExisting \/ StorePage

SpecLink == InitLink /\ [][NextLink]_vars

(***************************************************************************)
(* linkAuthor on headers that credit one person or two                     *)
(***************************************************************************)
LastNames == {"Smith", "Doe", "Rowling"}

FirstNames == {"John", "Jane", "J.K."}

CreditForms == {", ", ",", " ", " and "}

InitCredit ==
    /\ \E a \in LastNames, f \in CreditForms, b \in FirstNames :
          headerAuthor = a \o f \o b
    /\ multiResult = EmptyMultiResult
    /\ linkAuthorDone = FALSE
    /\ linkCalls = <<>>
    /\ peoplePages \in
          { <<>>, <<[basename |-> "John Smith", aliases |-> <<>>, folder |-> "People"]>> }
    /\ peopleFolderExists = (peoplePages # <<>>)
    /\ rawAuthorName = "" /\ authorResult = NoAuthorResult
    /\ existingPage = NoPage /\ authorPc = "idle"
    /\ createOutcome = "" /\ bioOutcome = "" /\ bioSection = Null
    /\ InitSplitIdle /\ InitNormIdle /\ InitTagsIdle /\ InitPluginIdle
    /\ InitDupIdle /\ InitRelatedIdle

LinkAuthor ==
    /\ ~linkAuthorDone
    /\ headerAuthor # ""
    /\ ~settings.createAuthorPages
    /\ multiResult' = linkAuthor(headerAuthor, peoplePages, peopleFolderExists)
    /\ linkAuthorDone' = TRUE
    /\ UNCHANGED <<linkCalls, headerAuthor>>
    /\ UNCHANGED <<nameVars, tagVars, pluginVars, authorVars, dupVars, relatedVars>>

NextCredit == LinkAuthor

SpecCredit == InitCredit /\ [][NextCredit]_vars

(***************************************************************************)
(* isDuplicate on a small vault                                            *)
(***************************************************************************)
DupFolders == Folders \cup {"ArticlesOld"}

InitDup ==
    /\ docFolder \in [Docs -> DupFolders]
    /\ \E us \in [Docs -> Urls \cup {""}] :
          header = [d \in Docs |->
                      [source |-> "web-clipper", url |-> us[d], processed |-> FALSE]]
    /\ cache = header
    /\ dupUrl \in Urls
    /\ dupFile \in Docs
    /\ dupResult = FALSE
    /\ dupDone = FALSE
    /\ settings = [autoProcess |-> FALSE, skipDuplicates |-> TRUE,
                   downloadImages |-> FALSE, createAuthorPages |-> FALSE,
                   useClaudeForAuthor |-> FALSE, generateTags |-> FALSE,
                   organizeByCategory |-> FALSE, linkRelatedArticles |-> FALSE]
    /\ processingQueue = {}
    /\ calls = EmptyBag
    /\ pendingFile = NoFile
    /\ InitSplitIdle /\ InitNormIdle /\ InitTagsIdle
    /\ InitAuthorIdle /\ InitLinkIdle /\ InitRelatedIdle

IsDuplicate ==
    /\ ~dupDone
    /\ dupFile # NoFile
    /\ dupResult' = isDuplicate(dupUrl, dupFile)
    /\ dupDone' = TRUE
    /\ UNCHANGED <<dupUrl, dupFile>>
    /\ UNCHANGED <<nameVars, tagVars, pluginVars, authorVars, linkVars, relatedVars>>

NextDup == IsDuplicate

SpecDup == InitDup /\ [][NextDup]_vars

(***************************************************************************)
(* RelatedArticles on a small vault                                        *)
(***************************************************************************)
MaxCorpus == 4
MaxRelated == 2

FilePool ==
    { [path |-> "Articles/Tech/x.md", hasFrontmatter |-> TRUE,  tags |-> <<"ai">>],
      [path |-> "Articles/y.md",      hasFrontmatter |-> TRUE,  tags |-> <<"ai", "ml">>],
      [path |-> "Articles/Tech/z.md", hasFrontmatter |-> TRUE,  tags |-> <<>>],
      [path |-> "Inbox/w.md",         hasFrontmatter |-> TRUE,  tags |-> <<"ai", "ml">>],
      [path |-> "Articles/cur.md",    hasFrontmatter |-> TRUE,  tags |-> <<"ai">>],
      [path |-> "Articles/Tech/n.md", hasFrontmatter |-> FALSE, tags |-> <<>>],
      [path |-> "Articles/d.md",      hasFrontmatter |-> TRUE,  tags |-> <<"ai", "ai">>] }

NewDocTags == { <<>>, <<"ai">>, <<"ai", "ml">>, <<"ai", "ai">> }

InitRelated ==
    /\ \E n \in 0..MaxCorpus :
          corpus \in { fs \in [1..n -> FilePool] :
                         \A i, j \in 1..n : i # j => fs[i] # fs[j] }
    /\ relCurrent = "Articles/cur.md"
    /\ relTags \in NewDocTags
    /\ relCategory \in Categories \cup {Null}
    /\ maxRelatedArticles \in 0..MaxRelated
    /\ relScores = <<>>
    /\ scoresDone = FALSE
    /\ relResult = <<>>
    /\ relDone = FALSE
    /\ relatedSections = [d \in Docs |-> 0]
    /\ InitSplitIdle /\ InitNormIdle /\ InitTagsIdle /\ InitPluginIdle
    /\ InitAuthorIdle /\ InitLinkIdle /\ InitDupIdle

CalculateRelevance ==
    /\ ~scoresDone
    /\ relCurrent # ""
    /\ relScores' = [i \in 1..Len(corpus) |->
                        calculateRelevance(corpus[i], relTags, relCategory)]
    /\ scoresDone' = TRUE
    /\ UNCHANGED <<corpus, relCurrent, relTags, relCategory, maxRelatedArticles,
                   relResult, relDone, relatedSections>>
    /\ UNCHANGED <<nameVars, tagVars, pluginVars, authorVars, linkVars, dupVars>>

FindRelated ==
    /\ ~relDone
    /\ relCurrent # ""
    /\ relResult' = findRelated(corpus, relCurrent, relTags, relCategory,
                                maxRelatedArticles)
    /\ relDone' = TRUE
    /\ UNCHANGED <<corpus, relCurrent, relTags, relCategory, maxRelatedArticles,
                   relScores, scoresDone, relatedSections>>
    /\ UNCHANGED <<nameVars, tagVars, pluginVars, authorVars, linkVars, dupVars>>

NextRelated == CalculateRelevance \/ FindRelated

SpecRelated == InitRelated /\ [][NextRelated]_vars

(***************************************************************************)
(* Claims about the name algorithms                                        *)
(***************************************************************************)

\* C8: splitAuthors treats ", ", " and " (any case), " & " and ", and " as
\* separators: names joined by any mix of them come back exactly as the list
\* of names, in order, with no separator character left in an element.
C8_SplitReturnsNames == splitDone => authorNames = creditNames

\* C9: normalizeName strips the "by" prefix, keeps the already-uppercase
\* initials "J.K." verbatim and title-cases the rest:
\* normalizeName("by J.K. rowling") = "J.K. Rowling".
C9_InitialsPreserved ==
    (normDone /\ rawName = "by J.K. rowling") => canonicalName = "J.K. Rowling"

\* The words of a name: its maximal runs of characters other than space and comma.
WordsOf(s) ==
    LET spaced == join(split(s, ","), " ")
        ws == split(spaced, " ")
    IN  {ws[i] : i \in {j \in 1..Len(ws) : ws[j] # ""}}

\* C10: normalizeName inverts "A, B" to "B A" exactly when there is one comma
\* with two non-empty sides, B has at most two words and no denylist word
\* occurs as a word of the name; otherwise the name is only title-cased.
C10_InvertsExactlyPersonNames ==
    normDone =>
        LET s == StripPrefix(trim(rawName))
            parts == Map(split(s, ","), trim)
            should ==
                /\ Len(parts) = 2 /\ parts[1] # "" /\ parts[2] # ""
                /\ Cardinality(WordsOf(parts[2])) <= 2
                /\ WordsOf(toLowerCase(s)) \cap orgIndicators = {}
        IN  canonicalName = IF should THEN TitleCase(parts[2] \o " " \o parts[1])
                            ELSE TitleCase(s)


(***************************************************************************)
(* Claims about the tag parser                                             *)
(***************************************************************************)

\* C6: every tag parseResponse returns has length 1..100, consists only of
\* characters in [a-z0-9/-] and begins with the configured tag prefix.
C6_TagsWellFormed ==
    parseDone =>
        \A i \in 1..Len(tagResult.tags) :
            LET t == tagResult.tags[i]
            IN  /\ Len(t) >= 1 /\ Len(t) <= 100
                /\ CharsOf(t) \subseteq
                     CharsOf("abcdefghijklmnopqrstuvwxyz0123456789/-")
                /\ StartsWith(t, tagPrefix)

\* C6 witness: tags were returned, a prefix was prepended, and the response
\* also held lines the validation had to reject.
C6_Witness ==
    /\ parseDone
    /\ tagPrefix = "research/"
    /\ tagResult.tags = <<"research/ai", "research/topic/deep-learning">>
    /\ Includes(response, "c++")

NoTagsLabel(resp) == ~Includes(toLowerCase(resp), "tags:")

TagOfLine(line, prefix) == WithPrefix(HyphenateSpaces(CleanTag(trim(line)), 1), prefix)

YieldsTag(line, prefix) ==
    /\ ~StartsWith(toUpperCase(trim(line)), "CATEGORY:")
    /\ ~SkipsTag(CleanTag(trim(line)))
    /\ isValidTag(TagOfLine(line, prefix))

C19_CategoryCharset ==
    parseDone =>
        \/ tagResult.category = NoCategory
        \/ /\ Len(tagResult.category) >= 1
           /\ Len(tagResult.category) <= 50
           /\ CharsOf(tagResult.category) \subseteq
                 CharsOf(LowerLetters) \cup CharsOf(UpperLetters) \cup {" ", "&", "-"}

\* C20 (as stated): parseResponse returns at most maxTags tags, and the tags
\* it returns follow the order of their lines in the response.
C20_AtMostMaxTags ==
    parseDone =>
        /\ Len(tagResult.tags) <= maxTags
        /\ LET ls == SectionLines(TagsSection(response))
               n == Len(tagResult.tags)
           IN  \E f \in [1..n -> 1..Len(ls)] :
                  /\ \A k \in 1..n : tagResult.tags[k] = TagOfLine(ls[f[k]], tagPrefix)
                  /\ \A j, k \in 1..n : j < k => f[j] < f[k]

(***************************************************************************)
(* Claims about ArticleProcessor.process                                   *)
(***************************************************************************)
Has(errors, msg) == \E i \in DOMAIN errors : errors[i] = msg

Fatal(c) == \E step \in DOMAIN StepOrder : Has(c.errors, FatalMsg(StepOrder[step]))

Returned(c) == c.pc = "returned"

\* C1: a call that the duplicate gate stopped (skippedDuplicate = TRUE) has
\* returned and has entered no step at all: no read, no image download, no
\* author or tag step, no rewrite of the body, no move, no header patch, no
\* related-articles step; its result carries no download and no category.
C1_DuplicateStopsAllWork ==
    \A c \in InFlight :
        c.skippedDuplicate =>
            /\ Returned(c)
            /\ c.ran = {}
            /\ c.imagesDownloaded = FALSE
            /\ c.category = NoCategory
            /\ Has(c.errors, DuplicateMsg)

C1_Witness ==
    \E c \in InFlight :
        /\ c.skippedDuplicate /\ Returned(c)
        /\ settings.downloadImages /\ settings.createAuthorPages
        /\ settings.generateTags /\ settings.organizeByCategory
        /\ settings.linkRelatedArticles

\* C2 (as stated): a returned call has success = FALSE exactly when the
\* top-level handler caught an exception; a duplicate-gate stop and a run
\* with step errors both return success = TRUE.
C2_FailureOnlyWhenFatal ==
    \A c \in InFlight :
        Returned(c) => ((c.success = FALSE) <=> Fatal(c))

\* whether process() enters the step, given the settings and what the
\* earlier steps of the call produced
Applies(c, step) ==
    CASE step = "images"  -> settings.downloadImages
      [] step = "author"  -> settings.createAuthorPages \/ settings.useClaudeForAuthor
      [] step = "tags"    -> settings.generateTags
      [] step = "rewrite" -> c.imagesDownloaded
      [] step = "move"    -> settings.organizeByCategory /\ c.category # NoCategory
      [] step = "patch"   -> TRUE
      [] step = "related" -> settings.linkRelatedArticles
      [] OTHER            -> FALSE

\* C3: a failure of the image, author, tag, move or related-articles step
\* never reaches the top-level handler; it leaves its message in errors and
\* the call goes on: unless a later unguarded step fails, every later step
\* that applies is entered, the header patch is applied (dr-processed is in
\* the header) and the call returns success = TRUE.
C3_StepFailuresStayLocal ==
    \A c \in InFlight :
        \A s \in {"images", "author", "tags", "move", "related"} :
            /\ ~Has(c.errors, FatalMsg(s))
            /\ (Has(c.errors, StepError(s)) /\ ~Fatal(c)) =>
                  /\ Index(c.pc) > Index(s)
                  /\ \A i \in (Index(s) + 1)..(Index(c.pc) - 1) :
                        Applies(c, StepOrder[i]) => StepOrder[i] \in c.ran
                  /\ Index(c.pc) > Index("patch") => header[c.doc].processed
                  /\ Returned(c) => c.success

C3_Witness ==
    \E c \in InFlight :
        /\ Returned(c) /\ c.success
        /\ Has(c.errors, StepError("author"))
        /\ {"tags", "patch"} \subseteq c.ran
        /\ header[c.doc].processed

(***************************************************************************)
(* Claims about the plugin's triggers and its processing queue             *)
(***************************************************************************)
\* C4 (as stated): a step that starts a process() call on a document whose
\* header already holds dr-processed = true starts a forced call.
C4_ProcessedOnlyForced ==
    [][\A c \in BagToSet(calls') :
          (/\ CopiesIn(c, calls') > CopiesIn(c, calls)
           /\ c.pc = "gate"
           /\ header[c.doc].processed) => c.forced]_vars

\* C5 (as stated): no two process() calls that have not returned were
\* started for the same path.
C5_OneCallPerPath ==
    \A c \in InFlight :
        ~Returned(c) =>
            /\ CopiesIn(c, calls) = 1
            /\ \A c2 \in InFlight :
                  (c2 # c /\ ~Returned(c2)) => c2.path # c.path

(***************************************************************************)
(* Claims about the author pages                                           *)
(***************************************************************************)
\* the pages under People/ whose basename or one of whose aliases equals
\* the name, letter case aside
ExactPages(name) ==
    {i \in DOMAIN peoplePages :
        /\ StartsWith(PagePath(peoplePages[i]), "People/")
        /\ \/ toLowerCase(peoplePages[i].basename) = toLowerCase(name)
           \/ \E k \in DOMAIN peoplePages[i].aliases :
                 toLowerCase(peoplePages[i].aliases[k]) = toLowerCase(name)}

C12_NameImpliesLink ==
    authorPc = "done" =>
        (authorResult.authorName # Null => authorResult.authorLink # Null)

\* C21: when the page of a missing author is to be created and the vault
\* stores it, a bio generation that fails or is unavailable (search fails,
\* query fails, client not configured) does not prevent the creation: the
\* page is in People/, the result has created = TRUE and links to it, and
\* the page carries the placeholder bio whenever no bio was obtained.
C21_BioFailureStillCreates ==
    (/\ authorPc = "done"
     /\ createOutcome = "stored"
     /\ bioOutcome \in {"notConfigured", "searchFails", "queryFails", "bothFail"})
    =>
        /\ authorResult.created
        /\ authorResult.authorLink = "[[" \o authorResult.authorName \o "]]"
        /\ \E i \in DOMAIN peoplePages :
              PagePath(peoplePages[i]) = "People/" \o authorResult.authorName \o ".md"
        /\ bioSection # Null
        /\ bioOutcome \in {"notConfigured", "queryFails", "bothFail"}
              => bioSection = "*Author of clipped articles. Bio to be added.*"

C21_Witness ==
    /\ authorPc = "done"
    /\ createOutcome = "stored"
    /\ bioOutcome = "bothFail"
    /\ authorResult.created
    /\ bioSection = PlaceholderBio
    /\ Len(peoplePages) > 0
    /\ peoplePages[Len(peoplePages)].basename = authorResult.authorName

\* C23: of the calls that credit the same canonical name, unknown before,
\* at most one reports created = TRUE, and the name has one page at most.
C23_CreatedOnlyOnce ==
    \A i, j \in DOMAIN linkCalls :
        (/\ i # j
         /\ linkCalls[i].result.authorName # Null
         /\ linkCalls[i].result.authorName = linkCalls[j].result.authorName)
        => /\ ~(linkCalls[i].result.created /\ linkCalls[j].result.created)
           /\ Cardinality({k \in DOMAIN peoplePages :
                   peoplePages[k].basename = linkCalls[i].result.authorName}) <= 1

\* C30: a name whose first word merely begins with the letters of a prefix
\* ("Byron Smith") keeps all of its characters: its canonical name differs
\* from the trimmed input only in letter case.
C30_PrefixOnlyWhenSeparate ==
    (normDone /\ StartsWith(rawName, "Byron") /\ ~Includes(rawName, ","))
        => toLowerCase(canonicalName) = toLowerCase(trim(rawName))

\* C29: linkAuthor on a header whose author is one person written as
\* "Last, First" returns exactly one author, named "First Last".
C29_LastFirstIsOneAuthor ==
    linkAuthorDone =>
        \A a \in LastNames, b \in FirstNames :
            headerAuthor = a \o ", " \o b =>
                multiResult.allAuthorNames = << b \o " " \o a >>

(***************************************************************************)
(* Claims about isDuplicate                                                *)
(***************************************************************************)
\* C13: isDuplicate(url, currentFile) is TRUE exactly when a document other
\* than currentFile that lies under Articles/ has a header url equal to url;
\* a match on currentFile itself or outside Articles/ does not count.
C13_DuplicateIffOtherUnderRoot ==
    dupDone =>
        (dupResult <=>
            \E d \in Docs \ {dupFile} :
                /\ StartsWith(PathOf(d), "Articles/")
                /\ header[d].url = dupUrl)

C13_Witness ==
    /\ dupDone /\ ~dupResult
    /\ header[dupFile].url = dupUrl
    /\ docFolder[dupFile] = "Articles"
    /\ \E d \in Docs \ {dupFile} :
          header[d].url = dupUrl /\ docFolder[d] = "ArticlesOld"

(***************************************************************************)
(* Claims about RelatedArticles                                            *)
(***************************************************************************)
TagSet(list) == { list[i] : i \in 1..Len(list) }

LiesInCategory(file) ==
    /\ relCategory # Null
    /\ StartsWith(file.path, "Articles/" \o relCategory \o "/")

\* C14: calculateRelevance is twice the number of distinct tag strings that
\* the candidate and the new document have in common, plus 3 when the
\* candidate lies in the folder of the new document's category, whatever the
\* tag overlap.
C14_ScoreIsDistinctOverlap ==
    scoresDone =>
        \A i \in 1..Len(corpus) :
            relScores[i] =
                2 * Cardinality(TagSet(corpus[i].tags) \cap TagSet(relTags))
                + (IF LiesInCategory(corpus[i]) THEN 3 ELSE 0)

\* C15: every file findRelated returns is not the current file, lies under
\* Articles/, and has a relevance score above 0.
C15_OnlyEligiblePositive ==
    relDone =>
        \A k \in 1..Len(relResult) :
            LET file == corpus[relResult[k]]
            IN  /\ file.path # relCurrent
                /\ StartsWith(file.path, "Articles/")
                /\ calculateRelevance(file, relTags, relCategory) > 0

C15_Witness ==
    /\ relDone
    /\ Len(relResult) > 0
    /\ \E i \in 1..Len(corpus) :
          corpus[i].path = relCurrent /\ ListIncludes(relTags, "ai")
    /\ \E i \in 1..Len(corpus) :
          /\ ~StartsWith(corpus[i].path, "Articles/")
          /\ calculateRelevance(corpus[i], relTags, relCategory) > 0
    /\ \E i \in 1..Len(corpus) :
          /\ StartsWith(corpus[i].path, "Articles/")
          /\ corpus[i].path # relCurrent
          /\ calculateRelevance(corpus[i], relTags, relCategory) = 0

ScoreOf(i) == calculateRelevance(corpus[i], relTags, relCategory)

Eligible(i) ==
    /\ corpus[i].path # relCurrent
    /\ StartsWith(corpus[i].path, "Articles/")
    /\ ScoreOf(i) > 0

InResult(i) == \E k \in 1..Len(relResult) : relResult[k] = i

\* C16: findRelated returns at most maxRelatedArticles files, in
\* non-increasing score order with equal scores in the vault's order, and no
\* eligible file with a positive score that is left out scores strictly
\* higher than a returned one; the list is shorter than the limit only when
\* every such file is in it.
C16_TopNRanking ==
    relDone =>
        /\ Len(relResult) <= maxRelatedArticles
        /\ \A k, l \in 1..Len(relResult) :
              k < l =>
                /\ relResult[k] # relResult[l]
                /\ ScoreOf(relResult[k]) >= ScoreOf(relResult[l])
                /\ ScoreOf(relResult[k]) = ScoreOf(relResult[l])
                      => relResult[k] < relResult[l]
        /\ \A i \in 1..Len(corpus) :
              Eligible(i) /\ ~InResult(i) =>
                /\ Len(relResult) = maxRelatedArticles
                /\ \A k \in 1..Len(relResult) :
                      ScoreOf(i) <= ScoreOf(relResult[k])

C16_Witness ==
    /\ relDone
    /\ Len(relResult) = 2
    /\ relResult[1] > relResult[2]
    /\ \E i \in 1..Len(corpus) :
          /\ Eligible(i) /\ ~InResult(i)
          /\ ScoreOf(i) < ScoreOf(relResult[2])

(***************************************************************************)
(* Claims about the tag step's service call                                *)
(***************************************************************************)
\* C17: once the service call of the tag step has failed, the call's errors
\* list holds an entry for it, the step has left no category, and process()
\* goes on to the later steps.
C17_QueryFailureRecorded ==
    \A c \in InFlight :
        c.queryFailed =>
            /\ Has(c.errors, StepError("tags"))
            /\ c.category = NoCategory
            /\ ~Fatal(c)

(***************************************************************************)
(* Claims about automatic processing                                       *)
(***************************************************************************)
\* C18: with autoProcess on, a document with source: web-clipper and not yet
\* processed that an event has handed to the debouncer is eventually passed
\* to process(), whatever events for other documents arrive in the window.
C18_EventLeadsToProcess ==
    \A d \in Docs :
        (/\ pendingFile = d
         /\ header[d].source = "web-clipper"
         /\ header[d].processed # TRUE)
            ~> (\E c \in InFlight : c.doc = d)

(***************************************************************************)
(* Claims about the rewrite of the body                                    *)
(***************************************************************************)
\* C22: a call whose rewrite of the body failed has that failure in errors
\* and, once it has returned, has still run the header patch and returned
\* success = TRUE.
C22_RewriteFailureStaysLocal ==
    \A c \in InFlight :
        (/\ Returned(c)
         /\ \E i \in DOMAIN c.errors : EndsWith(c.errors[i], "rewrite"))
        => (c.success /\ "patch" \in c.ran)

(***************************************************************************)
(* Claims about the exits of process()                                     *)
(***************************************************************************)
\* C24: every call of process() returns a result: it comes to its return,
\* and it gets there by the duplicate stop, by normal completion, or through
\* the top-level handler with the failure message as the last entry of
\* errors; no failure of a step leaves the call without a result.
C24_EveryCallReturns ==
    /\ [](\A c \in InFlight :
            /\ c.pc \in {StepOrder[k] : k \in DOMAIN StepOrder}
            /\ Returned(c) =>
                  \/ c.skippedDuplicate /\ ~c.success
                  \/ c.success /\ ~c.skippedDuplicate
                  \/ /\ ~c.success /\ ~c.skippedDuplicate
                     /\ Len(c.errors) > 0
                     /\ StartsWith(c.errors[Len(c.errors)], "Processing failed: "))
    /\ \A d \in Docs :
          (\E c \in InFlight : c.doc = d)
              ~> (\E c \in InFlight : c.doc = d /\ Returned(c))

C24_Witness ==
    \E c \in InFlight :
        /\ Returned(c)
        /\ ~c.success
        /\ c.queryFailed
        /\ Has(c.errors, "Author linking failed")
        /\ Has(c.errors, "Processing failed: patch")

(***************************************************************************)
(* Claims about the queue and a document that process() moves              *)
(***************************************************************************)
\* C25: while a call is in flight on a document that it has moved away from
\* the path it was registered under, no event starts a second call on the
\* same document: that call is the only one in flight on the document.
C25_MovedDocumentStaysExclusive ==
    \A c \in InFlight :
        (~Returned(c) /\ PathOf(c.doc) # c.path) =>
            /\ CopiesIn(c, calls) = 1
            /\ \A c2 \in InFlight : (c2 # c /\ ~Returned(c2)) => c2.doc # c.doc

\* C26: processingQueue holds exactly the paths under which the calls in
\* flight were started: a path enters with its call and leaves when the
\* call ends, moved document or not.
C26_QueueIsCallsInFlight ==
    processingQueue = { c.path : c \in InFlight }

(***************************************************************************)
(* Claims about the related-articles section of the body                   *)
(***************************************************************************)
\* C27: whatever runs of process() a document has had, forced reruns
\* included, its body holds at most one '## Related Articles' section.
C27_OneRelatedSection ==
    \A d \in Docs : relatedSections[d] <= 1

(***************************************************************************)
(* Claims about documents that share a url                                 *)
(***************************************************************************)
\* C28: when the documents under Articles/ that share one url have all been
\* through process(), not yet marked as processed, at least one of them was
\* let through by the duplicate gate.
C28_NotAllSkipped ==
    (/\ \A d \in Docs :
           /\ header[d].url = header["a.md"].url
           /\ StartsWith(PathOf(d), "Articles/")
           /\ \E c \in InFlight : c.doc = d /\ Returned(c)
     /\ \A c \in InFlight : ~header[c.doc].processed)
    => \E c \in InFlight : ~c.skippedDuplicate

====
